---------------------------- MODULE Spec2Model ----------------------------
(***************************************************************************)
(* A model of src/bot.py: a Telegram bot that registers users, relays text *)
(* to a generation API, analyses photos and documents and runs web         *)
(* searches, keeping its records in three MongoDB collections.             *)
(*                                                                         *)
(* The client's polling thread routes every message as it receives it and  *)
(* puts the handler call on the queue of its pool of worker threads.  A    *)
(* step of a handler is one call on state the handlers share (a            *)
(* collection, the next-step handlers, the working directory, the clock),  *)
(* or the bot.reply_to it waits in before it returns; an except clause is  *)
(* a step of its own.                                                      *)
(*                                                                         *)
(* datetime.utcnow() returns the clock, which Tick advances: two reads with *)
(* no Tick between them return the same value.                             *)
(*                                                                         *)
(* Seven specifications share the definitions below.                       *)
(*   Spec          every kind of message, no call raising                  *)
(*   FailSpec      every kind of message, any one call of a handler        *)
(*                 raising                                                 *)
(*   FileSpec      photos and documents of different lengths, no call      *)
(*                 raising but those the interleaving makes fail           *)
(*   DataSpec      registrations, contact shares and chat exchanges, no    *)
(*                 call raising, the clock advancing                       *)
(*   ExchangeSpec  registrations and chat exchanges, any one call of a     *)
(*                 handler raising, the clock advancing                    *)
(*   ConcSpec      registrations and chat exchanges, no call raising, the  *)
(*                 clock advancing                                         *)
(*   SearchSpec    WebSearcher.search_and_summarize applied to drawn       *)
(*                 inputs                                                  *)
(* Spec, FailSpec and FileSpec serve properties of routing, replies and    *)
(* file contents: their events all fall within one value of the clock.     *)
(*                                                                         *)
(* External services (MongoDB, the generation API, Telegram, the search    *)
(* and fetch libraries) are modelled by what the code relies on: a call    *)
(* returns or raises, and a single update_one / insert_one is atomic.      *)
(* Which call raises is an input of the event.                             *)
(***************************************************************************)
EXTENDS Integers, Sequences, FiniteSets, TLC

VARIABLES
    users,         \* db.users: the documents, in insertion order
    chat_history,  \* db.chat_history
    files,         \* db.files
    pending,       \* the client's next-step handlers: chat_id -> sequence of callbacks
    fs,            \* the working directory: file name -> whether it exists, its bytes
    now,           \* the clock datetime.utcnow() reads
    tasks,         \* the pool's queue: the handler calls routed and not yet begun
    thr,           \* the worker threads: the call each one runs and how far it is
    nextId,        \* the id of the next event delivered
    last,          \* the event whose handler returned last and what it did
    obs,           \* per chat: what has been observed of its exchanges so far
    sq             \* SearchSpec: the inputs drawn and the result computed

vars == <<users, chat_history, files, pending, fs, now, tasks, thr, nextId, last, obs, sq>>

-----------------------------------------------------------------------------
(* Bounds *)

MaxEvents == 3
MaxFailEvents == 2
MaxDataEvents == 3
MaxExchangeEvents == 3
MaxConcEvents == 3
MaxFileEvents == 2
MaxClock == 2
Chats == {1, 2}

None == "None"

-----------------------------------------------------------------------------
(* The collections *)

\* The index of the first document of coll with this chat_id, 0 when there is none:
\* the document update_one and find_one act on.
MatchIdx(coll, c) ==
    IF \E i \in 1..Len(coll) : coll[i].chat_id = c
    THEN CHOOSE i \in 1..Len(coll) :
            /\ coll[i].chat_id = c
            /\ \A j \in 1..(i - 1) : coll[j].chat_id # c
    ELSE 0

HasUser(us, c) == MatchIdx(us, c) # 0
UserOf(us, c) == us[MatchIdx(us, c)]
CountOf(coll, c) == Cardinality({i \in 1..Len(coll) : coll[i].chat_id = c})

\* The upsert written with $set: an existing record is overwritten.
register_user_set(us, c, joined_at, last_active) ==
    IF HasUser(us, c)
    THEN [us EXCEPT ![MatchIdx(us, c)] =
             [chat_id |-> c, joined_at |-> joined_at, phone_number |-> None,
              total_messages |-> 0, last_active |-> last_active]]
    ELSE Append(us, [chat_id |-> c, joined_at |-> joined_at, phone_number |-> None,
                     total_messages |-> 0, last_active |-> last_active])
\* UserManager.register_user: update_one(filter, {$setOnInsert: user_data}, upsert=True),
\* user_data built (the clock read for joined_at and again for last_active) before
\* the call.
register_user(us, c, joined_at, last_active) ==
    IF HasUser(us, c) THEN us
    ELSE Append(us, [chat_id |-> c, joined_at |-> joined_at, phone_number |-> None,
                     total_messages |-> 0, last_active |-> last_active])

\* The update made with upsert=True: a missing record is created.
save_phone_number_upsert(us, c, p) ==
    IF HasUser(us, c)
    THEN [us EXCEPT ![MatchIdx(us, c)].phone_number = p]
    ELSE Append(us, [chat_id |-> c, joined_at |-> 0, phone_number |-> p,
                     total_messages |-> 0, last_active |-> 0])
\* UserManager.save_phone_number: update_one(filter, {$set: {phone_number}}), no upsert.
save_phone_number(us, c, p) ==
    IF HasUser(us, c)
    THEN [us EXCEPT ![MatchIdx(us, c)].phone_number = p]
    ELSE us

\* ChatHistory.save_message, first call: db.chat_history.insert_one.
insert_history(h, c, um, br, t) ==
    Append(h, [chat_id |-> c, user_message |-> um, bot_response |-> br, timestamp |-> t])

\* Variants of the counter update: the $inc applied twice; the update made with
\* upsert=True; the $inc sent without the $set.
inc_counters_twice(us, c, t) ==
    IF HasUser(us, c)
    THEN [us EXCEPT ![MatchIdx(us, c)].total_messages = @ + 2,
                    ![MatchIdx(us, c)].last_active = t]
    ELSE us
inc_counters_upsert(us, c, t) ==
    IF HasUser(us, c)
    THEN [us EXCEPT ![MatchIdx(us, c)].total_messages = @ + 1,
                    ![MatchIdx(us, c)].last_active = t]
    ELSE Append(us, [chat_id |-> c, joined_at |-> t, phone_number |-> None,
                     total_messages |-> 1, last_active |-> t])
inc_counters_split(us, c, t) ==
    IF HasUser(us, c)
    THEN [us EXCEPT ![MatchIdx(us, c)].total_messages = @ + 1]
    ELSE us
\* ChatHistory.save_message, second call: one update_one with $inc and $set, no upsert.
inc_counters(us, c, t) ==
    IF HasUser(us, c)
    THEN [us EXCEPT ![MatchIdx(us, c)].total_messages = @ + 1,
                    ![MatchIdx(us, c)].last_active = t]
    ELSE us

\* FileAnalyzer.save_file_metadata: db.files.insert_one.
save_file_metadata(fl, c, name, desc, t) ==
    Append(fl, [chat_id |-> c, filename |-> name, description |-> desc, timestamp |-> t])

-----------------------------------------------------------------------------
(* WebSearcher.search_and_summarize *)

NumResults == 5
FetchLimit == 3

NothingFound == "I couldn't find any relevant information."
SearchFailed == "Sorry, I couldn't perform the web search at this time."

Min(a, b) == IF a < b THEN a ELSE b
Max(a, b) == IF a > b THEN a ELSE b

\* search(query, num_results=5): the links found, as 1..n.
LinkList(n) == IF n = 0 THEN <<>> ELSE [i \in 1..n |-> i]

\* The environment of one search: whether search() raises (and how many links it
\* yields if not), which links can be fetched, whether generate_content returns.
\* The query is handed to search() as it is, text or None: what search() does with
\* it is part of the environment.
AllSearchEnvs ==
    [search_ok : {TRUE}, n : 0..NumResults, ok : SUBSET (1..FetchLimit), gen : BOOLEAN]
    \cup [search_ok : {FALSE}, n : {0}, ok : {{}}, gen : {TRUE}]

\* soup.get_text()[:1000] of a fetched page.
PageContent(link) == [page |-> link, chars |-> 1000]

\* for link in links[:3]: the links tried so far and the contents appended, from
\* position i on. A fetch that raises is logged and the loop continues.
RECURSIVE fetch_loop(_, _, _)
fetch_loop(links, i, ok) ==
    IF i > Min(FetchLimit, Len(links))
    THEN [attempted |-> <<>>, summaries |-> <<>>]
    ELSE LET rest == fetch_loop(links, i + 1, ok)
         IN [attempted |-> <<links[i]>> \o rest.attempted,
             summaries |-> IF links[i] \in ok
                           THEN <<PageContent(links[i])>> \o rest.summaries
                           ELSE rest.summaries]

\* The variant returning only the links[:3] the loop went through.
search_and_summarize_fetched_only(query, env) ==
    IF ~env.search_ok
    THEN [summary |-> SearchFailed, links |-> <<>>, gen_calls |-> 0, attempted |-> <<>>,
          prompt |-> <<>>]
    ELSE LET links == LinkList(env.n)
             f == fetch_loop(links, 1, env.ok)
         IN IF f.summaries = <<>>
            THEN [summary |-> NothingFound, links |-> f.attempted, gen_calls |-> 0,
                  attempted |-> f.attempted, prompt |-> <<>>]
            ELSE IF ~env.gen
            THEN [summary |-> SearchFailed, links |-> <<>>, gen_calls |-> 1,
                  attempted |-> f.attempted, prompt |-> f.summaries]
            ELSE [summary |-> "summary", links |-> f.attempted, gen_calls |-> 1,
                  attempted |-> f.attempted, prompt |-> f.summaries]
\* The result (summary, links), with the generate_content calls made, the links
\* fetch was tried on and the page contents joined into the prompt.
search_and_summarize(query, env) ==
    IF ~env.search_ok
    THEN [summary |-> SearchFailed, links |-> <<>>, gen_calls |-> 0, attempted |-> <<>>,
          prompt |-> <<>>]
    ELSE LET links == LinkList(env.n)
             f == fetch_loop(links, 1, env.ok)
         IN IF f.summaries = <<>>
            THEN [summary |-> NothingFound, links |-> links, gen_calls |-> 0,
                  attempted |-> f.attempted, prompt |-> <<>>]
            ELSE IF ~env.gen
            THEN [summary |-> SearchFailed, links |-> <<>>, gen_calls |-> 1,
                  attempted |-> f.attempted, prompt |-> f.summaries]
            ELSE [summary |-> "summary", links |-> links, gen_calls |-> 1,
                  attempted |-> f.attempted, prompt |-> f.summaries]

-----------------------------------------------------------------------------
(* Messages and their routing *)

Texts == {"/start", "/help", "/websearch", "/stats", "/foo", "hi"}
DocNames == {"a.pdf", "b.txt"}
Phones == {"p1"}
\* The lengths of the files downloaded, in blocks.
Sizes == {1, 2}

\* message.text is None unless the content type is text; arg is the phone number of
\* a contact and the file name of a document; size is the length of the download.
TextMessages == [chat : Chats, ctype : {"text"}, text : Texts, arg : {None}, size : {0}]
ContactMessages == [chat : Chats, ctype : {"contact"}, text : {None}, arg : Phones, size : {0}]
PhotoMessages ==
    [chat : Chats, ctype : {"photo"}, text : {None}, arg : {"photo_path"}, size : Sizes]
DocumentMessages ==
    [chat : Chats, ctype : {"document"}, text : {None}, arg : DocNames, size : Sizes]
AllMessages == TextMessages \cup ContactMessages \cup PhotoMessages \cup DocumentMessages
\* Every kind of message, the downloads of one length.
Messages == {m \in AllMessages : m.size <= 1}

\* The command a text names ("/start" -> "start"), None for a text that is none.
CommandOf(text) ==
    CASE text = "/start" -> "start"
      [] text = "/help" -> "help"
      [] text = "/websearch" -> "websearch"
      [] text = "/stats" -> "stats"
      [] text = "/foo" -> "foo"
      [] OTHER -> None

\* The commands a handler is registered for.
Commands == {"start", "help", "websearch", "stats"}

IsPdf(name) == name \in {"a.pdf"}

\* The @bot.message_handler registrations, tested in the order they are made; the
\* first whose filter passes handles the message. A filter with no content_types
\* passes text messages only.
Route(m) ==
    IF m.ctype = "text" /\ CommandOf(m.text) = "start" THEN "start"
    ELSE IF m.ctype = "contact" THEN "handle_contact"
    ELSE IF m.ctype = "text" /\ CommandOf(m.text) = "help" THEN "help_command"
    ELSE IF m.ctype = "text" /\ CommandOf(m.text) = "websearch" THEN "web_search_command"
    ELSE IF m.ctype = "photo" THEN "handle_photo"
    ELSE IF m.ctype = "document" THEN "handle_document"
    ELSE IF m.ctype = "text" /\ CommandOf(m.text) = "stats" THEN "show_stats"
    ELSE IF m.ctype = "text" THEN "handle_message"
    ELSE None

\* A text the catch-all registration gets: one that names no registered command.
IsPlainText(m) == m.ctype = "text" /\ Route(m) = "handle_message"

\* bot.register_next_step_handler(message, perform_web_search) appends the callback
\* to the chat's next-step handlers. The client takes the callbacks registered for a
\* chat when it receives the chat's next message, whatever its content type, and
\* calls each with it; only a message of a chat with none registered reaches the
\* message handlers.
register_next_step_handler(pend, callback) == Append(pend, callback)
HandlersFor(pend, m) ==
    IF pend[m.chat] # <<>> THEN pend[m.chat] ELSE <<Route(m)>>

-----------------------------------------------------------------------------
(* What a handler does by itself: the replies it sends and its except clause.  *)
(* L is what the event has got so far: the replies delivered and whether an    *)
(* exception left the handler.  env is the input of the event: which call      *)
(* raises, whether the apology can be delivered, the environment of a search.  *)

ApologyStart == "Sorry, something went wrong. Please try again later."
ApologyContact == "Sorry, I couldn't save your contact information. Please try again."
ApologyHelp == "Sorry, I couldn't process the help command. Please try again."
ApologyWebSearch == "Sorry, I couldn't process the web search command. Please try again."
ApologyPerform == "Sorry, I couldn't complete the web search. Please try again."
ApologyPhoto == "Sorry, I couldn't process this image. Please try again."
ApologyDocument == "Sorry, I couldn't process this document. Please try again."
ApologyStats == "Sorry, I couldn't retrieve your statistics. Please try again."
ApologyMessage == "Sorry, I couldn't process your message. Please try again."
ImageFailed == "Sorry, I couldn't analyze this image. Please try again."
PdfFailed == "Sorry, I couldn't analyze this PDF. Please try again."
Unsupported == "Sorry, I can only analyze PDF documents at the moment."
StatsMissing == "Sorry, I couldn't find your statistics. Try using /start first."

\* The except clause's fixed text, per handler.
Apology(h) ==
    CASE h = "start" -> ApologyStart
      [] h = "handle_contact" -> ApologyContact
      [] h = "help_command" -> ApologyHelp
      [] h = "web_search_command" -> ApologyWebSearch
      [] h = "perform_web_search" -> ApologyPerform
      [] h = "handle_photo" -> ApologyPhoto
      [] h = "handle_document" -> ApologyDocument
      [] h = "show_stats" -> ApologyStats
      [] h = "handle_message" -> ApologyMessage
      [] OTHER -> None

\* bot.reply_to(message, text) that returns: the reply is delivered.
Reply(L, text, about) == [L EXCEPT !.replies = Append(@, [text |-> text, about |-> about])]

\* The except clause that only logs.
ExceptSilent(L, h, env) == L
\* except Exception: log, then bot.reply_to(message, apology). When that call raises
\* too, nothing is delivered and the exception leaves the handler.
Except(L, h, env) ==
    IF env.apology_fails
    THEN [L EXCEPT !.escaped = TRUE]
    ELSE Reply(L, Apology(h), <<>>)

\* perform_web_search's try block: the search, then the reply with the summary and
\* links[:5].
perform_web_search(L, m, env) ==
    LET r == search_and_summarize(m.text, env.search)
    IN Reply(L, "Here's what I found:",
             <<r.summary, SubSeq(r.links, 1, Min(NumResults, Len(r.links)))>>)

-----------------------------------------------------------------------------
(* The working directory *)

NoFile == [exists |-> FALSE, ino |-> 0, bytes |-> <<>>]
TempImage == "temp_image.jpg"
TempName(file_name) ==
    CASE file_name = "a.pdf" -> "temp_a.pdf"
      [] file_name = "b.txt" -> "temp_b.txt"
FileNames == {TempImage} \cup {TempName(n) : n \in DocNames}

\* The bytes downloaded for event id: size blocks, each named by the event.
Download(id, size) == [i \in 1..size |-> id]

\* open(name, "wb"): an existing file is emptied, a missing one created (ino tells
\* the files that have had the name apart).
open_file(dir, name) ==
    [dir EXCEPT ![name] = [exists |-> TRUE,
                           ino |-> IF @.exists THEN @.ino ELSE @.ino + 1,
                           bytes |-> <<>>]]
\* temp_file.write(data) and the close: the data goes to the file opened, from its
\* start, over what another handler has written there since; it is lost when that
\* file has been removed in between.
write_file(dir, name, ino, data) ==
    IF dir[name].exists /\ dir[name].ino = ino
    THEN [dir EXCEPT ![name].bytes =
             [i \in 1..Max(Len(data), Len(@)) |-> IF i <= Len(data) THEN data[i] ELSE @[i]]]
    ELSE dir
\* os.remove(name) of an existing file.
remove_file(dir, name) == [dir EXCEPT ![name].exists = FALSE, ![name].bytes = <<>>]

\* FileAnalyzer.analyze_image / analyze_pdf: the text returned, and the bytes it
\* describes. Opening a missing or empty file, or a failing API call, is caught
\* inside and the fixed text returned.
NoAnalysis == [text |-> None, src |-> <<>>, chars |-> 0]
analyze_image(dir, name, api_ok) ==
    IF dir[name].exists /\ dir[name].bytes # <<>> /\ api_ok
    THEN [text |-> "vision", src |-> dir[name].bytes, chars |-> 0]
    ELSE [text |-> ImageFailed, src |-> <<>>, chars |-> 0]
analyze_pdf(dir, name, api_ok) ==
    IF dir[name].exists /\ dir[name].bytes # <<>> /\ api_ok
    THEN [text |-> "pdf analysis", src |-> dir[name].bytes, chars |-> 2000]
    ELSE [text |-> PdfFailed, src |-> <<>>, chars |-> 0]

\* analysis[:100], the description stored.
First100(analysis) == [text |-> analysis.text, src |-> analysis.src, chars |-> 100]

-----------------------------------------------------------------------------
(* The inputs of an event *)

\* The calls of a handler that can raise inside its try block. "analyze" is the
\* analysis failing inside FileAnalyzer, which returns its fixed text instead.
RaisePoints(h) ==
    CASE h = "start" -> {"register", "reply"}
      [] h = "handle_contact" -> {"save_phone", "reply"}
      [] h = "help_command" -> {"reply"}
      [] h = "web_search_command" -> {"reply"}
      [] h = "perform_web_search" -> {"reply"}
      [] h = "handle_photo" -> {"download", "save_meta", "reply", "remove"}
      [] h = "handle_document" -> {"download", "save_meta", "reply", "remove"}
      [] h = "show_stats" -> {"find", "reply"}
      [] h = "handle_message" -> {"generate", "insert", "update", "reply"}
      [] OTHER -> {}
AbsorbedPoints(h) == IF h \in {"handle_photo", "handle_document"} THEN {"analyze"} ELSE {}

NoSearch == [search_ok |-> FALSE, n |-> 0, ok |-> {}, gen |-> TRUE]
\* The search environments the events draw from: search() raising, no page fetched,
\* one page fetched with the generation call returning or raising.
SearchEnvs ==
    {e \in AllSearchEnvs : ~e.search_ok \/ (e.n = NumResults /\ e.ok \in {{}, {2}})}

\* The inputs of a handler's run: no call raising (or the analysis failing inside
\* FileAnalyzer); a call raising with the apology delivered; the same with the
\* apology's reply_to raising as well.
SearchesOf(h) == IF h = "perform_web_search" THEN SearchEnvs ELSE {NoSearch}
QuietEnvs(h) ==
    [fail : {"none"} \cup AbsorbedPoints(h), apology_fails : {FALSE}, search : SearchesOf(h)]
RaisingEnvs(h) ==
    QuietEnvs(h) \cup [fail : RaisePoints(h), apology_fails : {FALSE}, search : SearchesOf(h)]
AllEnvs(h) ==
    RaisingEnvs(h) \cup [fail : RaisePoints(h), apology_fails : {TRUE}, search : SearchesOf(h)]
\* No call raising, every analysis returning.
CalmEnvs(h) == [fail : {"none"}, apology_fails : {FALSE}, search : SearchesOf(h)]

-----------------------------------------------------------------------------
(* The worker threads.  thr[w] is the handler call worker w runs: the message, *)
(* the handler, the inputs, the call it is about to make (pc), the clock       *)
(* values it read (t the last one, t_joined the one for joined_at), the file   *)
(* it opened (ino), the analysis and the statistics it got, the replies        *)
(* delivered so far and the call that raised (fail).                           *)

\* The client runs the handler calls on its pool of worker threads.
Workers == {1, 2}

NoMessage == [chat |-> 0, ctype |-> None, text |-> None, arg |-> None, size |-> 0]
NoEnv == [fail |-> "none", apology_fails |-> FALSE, search |-> NoSearch]
IdleThread ==
    [pc |-> "idle", m |-> NoMessage, h |-> None, id |-> 0, env |-> NoEnv, t |-> 0,
     t_joined |-> 0, ino |-> 0, analysis |-> NoAnalysis, stats |-> <<>>,
     replies |-> <<>>, escaped |-> FALSE, fail |-> "none"]

NoEvent ==
    [id |-> 0, msg |-> NoMessage, handler |-> None, fail |-> "none",
     apology_fails |-> FALSE, search |-> NoSearch, analysis |-> NoAnalysis,
     replies |-> <<>>, escaped |-> FALSE]
\*   completed     the chat exchanges of the chat in which no call raised
\*   counted       the counter updates applied to the chat's record
\*   stamp         the clock value of the latest of those, or of the record's creation
\*   completed_at  the clock value the latest completed exchange read for its update
\*   awaiting      1 once a websearch command of the chat was received, 2 once the
\*                 plain text that followed was, 0 once the one after that was
NoObs == [completed |-> 0, counted |-> 0, stamp |-> 0, completed_at |-> 0, awaiting |-> 0]
NoSearchRun == [phase |-> "off"]

\* The first step of a handler.
FirstStep(h) ==
    CASE h = "start" -> "joined_at"
      [] h = "handle_contact" -> "handle_contact"
      [] h = "help_command" -> "help_command"
      [] h = "web_search_command" -> "web_search_command"
      [] h = "perform_web_search" -> "perform_web_search"
      [] h = "handle_photo" -> "open"
      [] h = "handle_document" -> "open"
      [] h = "show_stats" -> "show_stats"
      [] h = "handle_message" -> "generate"

Handler(w) == thr[w].h
Loc(w) == [replies |-> thr[w].replies, escaped |-> thr[w].escaped]
TempOf(m) == IF m.ctype = "photo" THEN TempImage ELSE TempName(m.arg)

\* The handler worker w runs returns, L being what its run got; fail names the
\* call that failed in it. The worker is idle again.
Returns(w, L, fail) ==
    /\ thr' = [thr EXCEPT ![w] = IdleThread]
    /\ last' = [id |-> thr[w].id, msg |-> thr[w].m, handler |-> Handler(w), fail |-> fail,
                apology_fails |-> thr[w].env.apology_fails, search |-> thr[w].env.search,
                analysis |-> thr[w].analysis, replies |-> L.replies, escaped |-> L.escaped]

\* A call raises inside the try block of the handler worker w runs: the except
\* clause is next.
Raises(w, call) ==
    /\ thr' = [thr EXCEPT ![w].pc = "except", ![w].fail = call]
    /\ UNCHANGED last

\* The handler a message goes to now.
HandlerNow(m) == Head(HandlersFor(pending, m))

\* The polling thread receives a message: it takes the chat's next-step handlers if
\* the chat has any (they are removed), else the message handler the message routes
\* to, and puts one call for each on the pool's queue, whether a worker is idle or
\* not.
Receive(m, env, bound) ==
    /\ nextId <= bound
    /\ LET hs == HandlersFor(pending, m)
       IN /\ tasks' = tasks \o [i \in 1..Len(hs) |->
                                   [m |-> m, h |-> hs[i], id |-> nextId, env |-> env]]
          /\ pending' = [pending EXCEPT ![m.chat] = <<>>]
          /\ obs' = [obs EXCEPT ![m.chat].awaiting =
                         IF Head(hs) = "web_search_command" THEN 1
                         ELSE IF IsPlainText(m) /\ @ = 1 THEN 2
                         ELSE IF IsPlainText(m) /\ @ = 2 THEN 0
                         ELSE @]
    /\ nextId' = nextId + 1
    /\ UNCHANGED <<users, chat_history, files, fs, now, thr, last, sq>>

\* An idle worker (the first of them) takes the call at the head of the queue.
Begin(w) ==
    /\ thr[w].pc = "idle"
    /\ \A v \in Workers : v < w => thr[v].pc # "idle"
    /\ tasks # <<>>
    /\ thr' = [thr EXCEPT ![w] = [IdleThread EXCEPT !.pc = FirstStep(Head(tasks).h),
                                                     !.m = Head(tasks).m,
                                                     !.h = Head(tasks).h,
                                                     !.id = Head(tasks).id,
                                                     !.env = Head(tasks).env]]
    /\ tasks' = Tail(tasks)
    /\ UNCHANGED <<users, chat_history, files, pending, fs, now, nextId, last, obs, sq>>

\* The clock advances.
Tick ==
    /\ now < MaxClock
    /\ now' = now + 1
    /\ UNCHANGED <<users, chat_history, files, pending, fs, tasks, thr, nextId, last, obs, sq>>

\* The except clause of the handler worker w runs, and its return.
except_clause(w) ==
    /\ thr[w].pc = "except"
    /\ Returns(w, Except(Loc(w), Handler(w), thr[w].env), thr[w].fail)
    /\ UNCHANGED <<users, chat_history, files, pending, fs, now, tasks, nextId, obs, sq>>

\* start, register_user: user_data is built, the clock read for joined_at.
start_joined_at(w) ==
    /\ thr[w].pc = "joined_at"
    /\ thr' = [thr EXCEPT ![w].pc = "last_active", ![w].t_joined = now]
    /\ UNCHANGED <<users, chat_history, files, pending, fs, now, tasks, nextId, last, obs, sq>>

\* start, register_user: the clock is read again for last_active.
start_last_active(w) ==
    /\ thr[w].pc = "last_active"
    /\ thr' = [thr EXCEPT ![w].pc = "start_update_one", ![w].t = now]
    /\ UNCHANGED <<users, chat_history, files, pending, fs, now, tasks, nextId, last, obs, sq>>

\* start, register_user: the upsert.
start_update_one(w) ==
    /\ thr[w].pc = "start_update_one"
    /\ LET c == thr[w].m.chat
       IN IF thr[w].env.fail = "register"
          THEN /\ Raises(w, "register")
               /\ UNCHANGED <<users, obs>>
          ELSE /\ users' = register_user(users, c, thr[w].t_joined, thr[w].t)
               /\ obs' = [obs EXCEPT ![c].stamp = IF HasUser(users, c) THEN @ ELSE thr[w].t]
               /\ thr' = [thr EXCEPT ![w].pc = "start_reply"]
               /\ UNCHANGED last
    /\ UNCHANGED <<chat_history, files, pending, fs, now, tasks, nextId, sq>>

\* start: the welcome is sent, and the return.
start_reply(w) ==
    /\ thr[w].pc = "start_reply"
    /\ IF thr[w].env.fail = "reply"
       THEN Raises(w, "reply")
       ELSE Returns(w, Reply(Loc(w), "Welcome!", <<"Share Contact">>), "none")
    /\ UNCHANGED <<users, chat_history, files, pending, fs, now, tasks, nextId, obs, sq>>

\* handle_contact: save_phone_number's update_one.
\* message.contact is set on every message of content type contact.
handle_contact(w) ==
    /\ thr[w].pc = "handle_contact"
    /\ IF thr[w].env.fail = "save_phone"
       THEN /\ Raises(w, "save_phone")
            /\ UNCHANGED users
       ELSE /\ users' = save_phone_number(users, thr[w].m.chat, thr[w].m.arg)
            /\ thr' = [thr EXCEPT ![w].pc = "contact_reply"]
            /\ UNCHANGED last
    /\ UNCHANGED <<chat_history, files, pending, fs, now, tasks, nextId, obs, sq>>

\* handle_contact: the thanks are sent, and the return.
handle_contact_reply(w) ==
    /\ thr[w].pc = "contact_reply"
    /\ IF thr[w].env.fail = "reply"
       THEN Raises(w, "reply")
       ELSE Returns(w, Reply(Loc(w), "Thanks! You're all set.", <<>>), "none")
    /\ UNCHANGED <<users, chat_history, files, pending, fs, now, tasks, nextId, obs, sq>>

\* help_command: the help text is sent.
help_command(w) ==
    /\ thr[w].pc = "help_command"
    /\ IF thr[w].env.fail = "reply"
       THEN Raises(w, "reply")
       ELSE Returns(w, Reply(Loc(w), "Here's what I can do:", <<>>), "none")
    /\ UNCHANGED <<users, chat_history, files, pending, fs, now, tasks, nextId, obs, sq>>

\* web_search_command: the question is sent, then perform_web_search registered as
\* the chat's next step.
web_search_command(w) ==
    /\ thr[w].pc = "web_search_command"
    /\ IF thr[w].env.fail = "reply"
       THEN /\ Raises(w, "reply")
            /\ UNCHANGED pending
       ELSE /\ Returns(w, Reply(Loc(w), "What would you like to search for?", <<>>), "none")
            /\ pending' = [pending EXCEPT
                              ![thr[w].m.chat] =
                                  register_next_step_handler(@, "perform_web_search")]
    /\ UNCHANGED <<users, chat_history, files, fs, now, tasks, nextId, obs, sq>>

\* perform_web_search, called with the message it was taken for.
next_step(w) ==
    /\ thr[w].pc = "perform_web_search"
    /\ IF thr[w].env.fail = "reply"
       THEN Raises(w, "reply")
       ELSE Returns(w, perform_web_search(Loc(w), thr[w].m, thr[w].env), "none")
    /\ UNCHANGED <<users, chat_history, files, pending, fs, now, tasks, nextId, obs, sq>>

\* show_stats: find_one.
show_stats(w) ==
    /\ thr[w].pc = "show_stats"
    /\ LET c == thr[w].m.chat
       IN IF thr[w].env.fail = "find"
          THEN Raises(w, "find")
          ELSE /\ thr' = [thr EXCEPT
                             ![w].pc = "stats_reply",
                             ![w].stats =
                                 IF HasUser(users, c)
                                 THEN <<UserOf(users, c).joined_at,
                                        UserOf(users, c).total_messages,
                                        UserOf(users, c).last_active>>
                                 ELSE <<>>]
               /\ UNCHANGED last
    /\ UNCHANGED <<users, chat_history, files, pending, fs, now, tasks, nextId, obs, sq>>

\* show_stats: the statistics found, or the hint to register, are sent.
show_stats_reply(w) ==
    /\ thr[w].pc = "stats_reply"
    /\ IF thr[w].env.fail = "reply"
       THEN Raises(w, "reply")
       ELSE IF thr[w].stats # <<>>
       THEN Returns(w, Reply(Loc(w), "Your Statistics:", thr[w].stats), "none")
       ELSE Returns(w, Reply(Loc(w), StatsMissing, <<>>), "none")
    /\ UNCHANGED <<users, chat_history, files, pending, fs, now, tasks, nextId, obs, sq>>

\* handle_message: generate_content; save_message reads the clock for the record.
handle_message_generate(w) ==
    /\ thr[w].pc = "generate"
    /\ IF thr[w].env.fail = "generate"
       THEN Raises(w, "generate")
       ELSE /\ thr' = [thr EXCEPT ![w].pc = "insert_one", ![w].t = now]
            /\ UNCHANGED last
    /\ UNCHANGED <<users, chat_history, files, pending, fs, now, tasks, nextId, obs, sq>>

\* handle_message, save_message: insert_one.
handle_message_insert_one(w) ==
    /\ thr[w].pc = "insert_one"
    /\ IF thr[w].env.fail = "insert"
       THEN /\ Raises(w, "insert")
            /\ UNCHANGED chat_history
       ELSE /\ chat_history' =
                   insert_history(chat_history, thr[w].m.chat, thr[w].m.text,
                                  [text |-> "generated", prompt |-> thr[w].m.text], thr[w].t)
            /\ thr' = [thr EXCEPT ![w].pc = "update_utcnow"]
            /\ UNCHANGED last
    /\ UNCHANGED <<users, files, pending, fs, now, tasks, nextId, obs, sq>>

\* handle_message, save_message: the clock is read for last_active.
handle_message_utcnow(w) ==
    /\ thr[w].pc = "update_utcnow"
    /\ thr' = [thr EXCEPT ![w].pc = "update_one", ![w].t = now]
    /\ UNCHANGED <<users, chat_history, files, pending, fs, now, tasks, nextId, last, obs, sq>>

\* handle_message, save_message: update_one.
handle_message_update_one(w) ==
    /\ thr[w].pc = "update_one"
    /\ LET c == thr[w].m.chat
       IN IF thr[w].env.fail = "update"
          THEN /\ Raises(w, "update")
               /\ UNCHANGED <<users, obs>>
          ELSE /\ users' = inc_counters(users, c, thr[w].t)
               /\ obs' = [obs EXCEPT
                             ![c].counted = IF HasUser(users, c) THEN @ + 1 ELSE @,
                             ![c].stamp = IF HasUser(users, c) THEN thr[w].t ELSE @]
               /\ thr' = [thr EXCEPT ![w].pc = "message_reply"]
               /\ UNCHANGED last
    /\ UNCHANGED <<chat_history, files, pending, fs, now, tasks, nextId, sq>>

\* handle_message: the response is sent, and the return.
handle_message_reply(w) ==
    /\ thr[w].pc = "message_reply"
    /\ LET c == thr[w].m.chat
           response == [text |-> "generated", prompt |-> thr[w].m.text]
       IN IF thr[w].env.fail = "reply"
          THEN /\ Raises(w, "reply")
               /\ UNCHANGED obs
          ELSE /\ Returns(w, Reply(Loc(w), "generated", <<response>>), "none")
               /\ obs' = [obs EXCEPT ![c].completed = @ + 1,
                                     ![c].completed_at = thr[w].t]
    /\ UNCHANGED <<users, chat_history, files, pending, fs, now, tasks, nextId, sq>>

\* handle_photo, handle_document: get_file and download_file; open(name, "wb").
file_open(w) ==
    /\ thr[w].pc = "open"
    /\ LET name == TempOf(thr[w].m)
       IN IF thr[w].env.fail = "download"
          THEN /\ Raises(w, "download")
               /\ UNCHANGED fs
          ELSE /\ fs' = open_file(fs, name)
               /\ thr' = [thr EXCEPT ![w].pc = "write", ![w].ino = open_file(fs, name)[name].ino]
               /\ UNCHANGED last
    /\ UNCHANGED <<users, chat_history, files, pending, now, tasks, nextId, obs, sq>>

\* handle_photo, handle_document: the download is written and the file closed.
file_write(w) ==
    /\ thr[w].pc = "write"
    /\ fs' = write_file(fs, TempOf(thr[w].m), thr[w].ino,
                        Download(thr[w].id, thr[w].m.size))
    /\ thr' = [thr EXCEPT ![w].pc = "analyze"]
    /\ UNCHANGED <<users, chat_history, files, pending, now, tasks, nextId, last, obs, sq>>

\* The temporary file is analysed (a document that is no PDF is not read).
file_analyze(w) ==
    /\ thr[w].pc = "analyze"
    /\ LET m == thr[w].m
           api_ok == thr[w].env.fail # "analyze"
       IN thr' = [thr EXCEPT ![w].pc = "save_utcnow",
                             ![w].analysis =
                                 IF m.ctype = "photo" THEN analyze_image(fs, TempImage, api_ok)
                                 ELSE IF IsPdf(m.arg)
                                 THEN analyze_pdf(fs, TempName(m.arg), api_ok)
                                 ELSE [text |-> Unsupported, src |-> <<>>, chars |-> 0]]
    /\ UNCHANGED <<users, chat_history, files, pending, fs, now, tasks, nextId, last, obs, sq>>

\* save_file_metadata reads the clock for the record.
file_utcnow(w) ==
    /\ thr[w].pc = "save_utcnow"
    /\ thr' = [thr EXCEPT ![w].pc = "save", ![w].t = now]
    /\ UNCHANGED <<users, chat_history, files, pending, fs, now, tasks, nextId, last, obs, sq>>

\* save_file_metadata's insert_one.
file_insert_one(w) ==
    /\ thr[w].pc = "save"
    /\ IF thr[w].env.fail = "save_meta"
       THEN /\ Raises(w, "save_meta")
            /\ UNCHANGED files
       ELSE /\ files' = save_file_metadata(files, thr[w].m.chat, thr[w].m.arg,
                                           First100(thr[w].analysis), thr[w].t)
            /\ thr' = [thr EXCEPT ![w].pc = "remove"]
            /\ UNCHANGED last
    /\ UNCHANGED <<users, chat_history, pending, fs, now, tasks, nextId, obs, sq>>

\* The analysis is sent as the reply, then os.remove of the temporary file: it
\* raises when the file is not there. The return follows a removal made.
file_remove(w) ==
    /\ thr[w].pc = "remove"
    /\ LET name == TempOf(thr[w].m)
           title == IF thr[w].m.ctype = "photo" THEN "Image Analysis:"
                    ELSE "Document Analysis:"
           sent == Reply(Loc(w), title, <<thr[w].analysis>>)
       IN IF thr[w].env.fail = "reply"
          THEN /\ Raises(w, "reply")
               /\ UNCHANGED fs
          ELSE IF thr[w].env.fail = "remove" \/ ~fs[name].exists
          THEN /\ thr' = [thr EXCEPT ![w].pc = "except", ![w].fail = "remove",
                                     ![w].replies = sent.replies]
               /\ UNCHANGED <<fs, last>>
          ELSE /\ fs' = remove_file(fs, name)
               /\ Returns(w, sent, thr[w].env.fail)
    /\ UNCHANGED <<users, chat_history, files, pending, now, tasks, nextId, obs, sq>>

InitData ==
    /\ users = <<>>
    /\ chat_history = <<>>
    /\ files = <<>>
    /\ pending = [c \in Chats |-> <<>>]
    /\ fs = [n \in FileNames |-> NoFile]
    /\ now = 1
    /\ tasks = <<>>
    /\ thr = [w \in Workers |-> IdleThread]
    /\ nextId = 1
    /\ last = NoEvent
    /\ obs = [c \in Chats |-> NoObs]

Init ==
    /\ InitData
    /\ sq = NoSearchRun

\* Spec: every kind of message, no call raising inside a handler's try block, all
\* within one value of the clock.
Next ==
    \/ \E m \in Messages : \E env \in CalmEnvs(HandlerNow(m)) : Receive(m, env, MaxEvents)
    \/ \E w \in Workers :
           \/ Begin(w)
           \/ except_clause(w)
           \/ start_joined_at(w)
           \/ start_last_active(w)
           \/ start_update_one(w)
           \/ start_reply(w)
           \/ handle_contact(w)
           \/ handle_contact_reply(w)
           \/ help_command(w)
           \/ web_search_command(w)
           \/ next_step(w)
           \/ show_stats(w)
           \/ show_stats_reply(w)
           \/ handle_message_generate(w)
           \/ handle_message_insert_one(w)
           \/ handle_message_utcnow(w)
           \/ handle_message_update_one(w)
           \/ handle_message_reply(w)
           \/ file_open(w)
           \/ file_write(w)
           \/ file_analyze(w)
           \/ file_utcnow(w)
           \/ file_insert_one(w)
           \/ file_remove(w)

Spec == Init /\ [][Next]_vars

\* FailSpec: every kind of message, any one call of the handler raising, all within
\* one value of the clock.
FailNext ==
    \/ \E m \in Messages : \E env \in AllEnvs(HandlerNow(m)) : Receive(m, env, MaxFailEvents)
    \/ \E w \in Workers :
           \/ Begin(w)
           \/ except_clause(w)
           \/ start_joined_at(w)
           \/ start_last_active(w)
           \/ start_update_one(w)
           \/ start_reply(w)
           \/ handle_contact(w)
           \/ handle_contact_reply(w)
           \/ help_command(w)
           \/ web_search_command(w)
           \/ next_step(w)
           \/ show_stats(w)
           \/ show_stats_reply(w)
           \/ handle_message_generate(w)
           \/ handle_message_insert_one(w)
           \/ handle_message_utcnow(w)
           \/ handle_message_update_one(w)
           \/ handle_message_reply(w)
           \/ file_open(w)
           \/ file_write(w)
           \/ file_analyze(w)
           \/ file_utcnow(w)
           \/ file_insert_one(w)
           \/ file_remove(w)

FailSpec == Init /\ [][FailNext]_vars

\* The events that write db.users: registrations, contact shares, chat exchanges.
DataMessages ==
    {m \in Messages : m.ctype = "contact" \/ (m.ctype = "text" /\ m.text \in {"/start", "hi"})}
\* DataSpec: those events, no call raising, the clock advancing.
DataNext ==
    \/ Tick
    \/ \E m \in DataMessages : \E env \in CalmEnvs(HandlerNow(m)) :
          Receive(m, env, MaxDataEvents)
    \/ \E w \in Workers :
           \/ Begin(w)
           \/ start_joined_at(w)
           \/ start_last_active(w)
           \/ start_update_one(w)
           \/ start_reply(w)
           \/ handle_contact(w)
           \/ handle_contact_reply(w)
           \/ handle_message_generate(w)
           \/ handle_message_insert_one(w)
           \/ handle_message_utcnow(w)
           \/ handle_message_update_one(w)
           \/ handle_message_reply(w)

DataSpec == Init /\ [][DataNext]_vars

\* ExchangeSpec: registrations and chat exchanges, any one database or API call of
\* the handler raising, the clock advancing.
ConcMessages == {m \in DataMessages : m.ctype = "text"}
ExchangeNext ==
    \/ Tick
    \/ \E m \in ConcMessages : \E env \in RaisingEnvs(HandlerNow(m)) :
          Receive(m, env, MaxExchangeEvents)
    \/ \E w \in Workers :
           \/ Begin(w)
           \/ except_clause(w)
           \/ start_joined_at(w)
           \/ start_last_active(w)
           \/ start_update_one(w)
           \/ start_reply(w)
           \/ handle_message_generate(w)
           \/ handle_message_insert_one(w)
           \/ handle_message_utcnow(w)
           \/ handle_message_update_one(w)
           \/ handle_message_reply(w)

ExchangeSpec == Init /\ [][ExchangeNext]_vars

\* ConcSpec: registrations and chat exchanges, no call raising, the clock advancing.
ConcNext ==
    \/ Tick
    \/ \E m \in ConcMessages : \E env \in CalmEnvs(HandlerNow(m)) :
          Receive(m, env, MaxConcEvents)
    \/ \E w \in Workers :
           \/ Begin(w)
           \/ start_joined_at(w)
           \/ start_last_active(w)
           \/ start_update_one(w)
           \/ start_reply(w)
           \/ handle_message_generate(w)
           \/ handle_message_insert_one(w)
           \/ handle_message_utcnow(w)
           \/ handle_message_update_one(w)
           \/ handle_message_reply(w)

ConcSpec == Init /\ [][ConcNext]_vars

\* FileSpec: photos and documents of either length, all within one value of the
\* clock; no call raises but the os.remove of a file another handler has removed.
FileMessages == {m \in AllMessages : m.ctype \in {"photo", "document"}}
FileNext ==
    \/ \E m \in FileMessages : \E env \in CalmEnvs(HandlerNow(m)) :
          Receive(m, env, MaxFileEvents)
    \/ \E w \in Workers :
           \/ Begin(w)
           \/ except_clause(w)
           \/ file_open(w)
           \/ file_write(w)
           \/ file_analyze(w)
           \/ file_utcnow(w)
           \/ file_insert_one(w)
           \/ file_remove(w)

FileSpec == Init /\ [][FileNext]_vars

-----------------------------------------------------------------------------
(* SearchSpec: search_and_summarize applied to every environment *)

SearchInit ==
    /\ InitData
    /\ sq \in [phase : {"in"}, query : {"hi", "/foo", None}, env : AllSearchEnvs]

RunSearch ==
    /\ sq.phase = "in"
    /\ sq' = [phase |-> "out", query |-> sq.query, env |-> sq.env,
              res |-> search_and_summarize(sq.query, sq.env)]
    /\ UNCHANGED <<users, chat_history, files, pending, fs, now, tasks, thr, nextId, last, obs>>

SearchNext == RunSearch

SearchSpec == SearchInit /\ [][SearchNext]_vars

-----------------------------------------------------------------------------
(* The claims *)

Total(c) == UserOf(users, c).total_messages
LastActive(c) == UserOf(users, c).last_active
\* Worker w makes the call it is at (pc) in this step.
Makes(w, pc) == thr[w].pc = pc /\ thr'[w] # thr[w]
\* The polling thread receives a message in this step; the calls it queues for it.
Received == nextId' # nextId
NewTasks == SubSeq(tasks', Len(tasks) + 1, Len(tasks'))
ReceivedMessage == NewTasks[1].m
ReceivedFor == [i \in 1..Len(NewTasks) |-> NewTasks[i].h]
InExchange(w) == thr[w].h = "handle_message"

\* C1, as stated: after N >= 0 completed chat exchanges of a chat_id its UserRecord
\* has total_messages = N and last_active = the timestamp of the Nth exchange.
C1_CounterEqualsCompleted ==
    \A c \in Chats :
        /\ obs[c].completed >= 1 =>
              /\ HasUser(users, c)
              /\ Total(c) = obs[c].completed
              /\ LastActive(c) = obs[c].completed_at
        /\ (obs[c].completed = 0 /\ HasUser(users, c)) => Total(c) = 0

\* C1, amended: for a chat_id with a UserRecord, total_messages is the number of
\* chat exchanges whose counter update was made while the record existed (their
\* generation, insert_one and update_one returned, the reply delivered or not),
\* last_active is the clock value read for the update made last (for the record's
\* creation when there is none), and total_messages never decreases; a chat exchange
\* never creates a UserRecord.
C1_CounterEqualsPersisted ==
    /\ [](\A c \in Chats :
            HasUser(users, c) =>
                /\ Total(c) = obs[c].counted
                /\ LastActive(c) = obs[c].stamp)
    /\ [][\A c \in Chats :
            /\ HasUser(users, c) =>
                  /\ HasUser(users', c)
                  /\ UserOf(users', c).total_messages >= Total(c)
            /\ (\E w \in Workers : InExchange(w) /\ thr'[w] # thr[w]) =>
                  (HasUser(users', c) <=> HasUser(users, c))]_vars

C1_Witness ==
    \E c \in Chats :
        /\ HasUser(users, c)
        /\ Total(c) = 2
        /\ obs[c].completed = 2
        /\ last.handler = "handle_message"
        /\ last.msg.chat = c
        /\ last.fail = "none"

\* C2: the upsert of /start for a chat_id that has a UserRecord leaves joined_at,
\* phone_number, total_messages and last_active of the record (and the number of
\* records) as they were; for a chat_id with none it adds exactly one record, with
\* total_messages = 0 and phone_number = None, and changes no other record.
C2_RegisterInsertOnly ==
    [][\A w \in Workers :
        (Makes(w, "start_update_one") /\ thr[w].env.fail # "register") =>
            LET c == thr[w].m.chat
            IN IF HasUser(users, c)
               THEN /\ Len(users') = Len(users)
                    /\ CountOf(users', c) = CountOf(users, c)
                    /\ UserOf(users', c).joined_at = UserOf(users, c).joined_at
                    /\ UserOf(users', c).phone_number = UserOf(users, c).phone_number
                    /\ UserOf(users', c).total_messages = UserOf(users, c).total_messages
                    /\ UserOf(users', c).last_active = UserOf(users, c).last_active
               ELSE /\ Len(users') = Len(users) + 1
                    /\ SubSeq(users', 1, Len(users)) = users
                    /\ CountOf(users', c) = 1
                    /\ UserOf(users', c).total_messages = 0
                    /\ UserOf(users', c).phone_number = None
                    /\ UserOf(users', c).joined_at = thr[w].t_joined
                    /\ UserOf(users', c).last_active = thr[w].t]_vars

\* A second /start of a chat_id has made its upsert and waits in its reply: the
\* record is the one an earlier /start created (its joined_at is earlier than the
\* value this /start read), and it has been counted on.
C2_Witness ==
    \E c \in Chats, w \in Workers :
        /\ thr[w].pc = "start_reply"
        /\ thr[w].m.chat = c
        /\ HasUser(users, c)
        /\ CountOf(users, c) = 1
        /\ Total(c) >= 1
        /\ UserOf(users, c).joined_at < thr[w].t_joined

\* C6: the update of a contact share of a chat_id with no UserRecord creates none and
\* changes no collection; of a chat_id with a record it sets phone_number of that
\* record and changes nothing else.
C6_SavePhoneFrame ==
    [][\A w \in Workers :
        (Makes(w, "handle_contact") /\ thr[w].env.fail # "save_phone") =>
            LET c == thr[w].m.chat
            IN /\ chat_history' = chat_history
               /\ files' = files
               /\ IF HasUser(users, c)
                  THEN users' = [users EXCEPT
                                    ![MatchIdx(users, c)].phone_number = thr[w].m.arg]
                  ELSE users' = users]_vars

C6_Witness ==
    \E c \in Chats, d \in Chats :
        /\ last.handler = "handle_contact"
        /\ last.msg.chat = c
        /\ last.fail = "none"
        /\ ~HasUser(users, c)
        /\ HasUser(users, d)
        /\ UserOf(users, d).phone_number # None

\* A message that is no plain text: a registered command, a contact share, a photo
\* or a document.
IsOtherKind(m) ==
    \/ m.ctype \in {"contact", "photo", "document"}
    \/ m.ctype = "text" /\ CommandOf(m.text) \in Commands

\* C3: once a websearch command of a chat_id was received, the next plain text of
\* that chat_id goes to perform_web_search and removes the pending entry, the plain
\* text after that goes to handle_message, and no chat_id ever has more than one
\* pending step.
C3_PendingOneShot ==
    /\ [](\A c \in Chats : Len(pending[c]) <= 1)
    /\ [][Received =>
            LET m == ReceivedMessage
                c == m.chat
            IN /\ (obs[c].awaiting = 1 /\ IsPlainText(m)) =>
                      /\ ReceivedFor = <<"perform_web_search">>
                      /\ pending'[c] = <<>>
               /\ (obs[c].awaiting = 2 /\ IsPlainText(m)) =>
                      ReceivedFor = <<"handle_message">>]_vars

\* C4: while a chat_id has a pending step, a command, contact share, photo or
\* document of that chat_id goes to its own handler and leaves the pending step in
\* place, and no message changes the pending step of another chat_id.
C4_PendingOnlyPlainText ==
    [][Received =>
        LET m == ReceivedMessage
            c == m.chat
        IN /\ (pending[c] # <<>> /\ IsOtherKind(m)) =>
                  /\ ReceivedFor = <<Route(m)>>
                  /\ pending'[c] = pending[c]
           /\ \A d \in Chats \ {c} : pending'[d] = pending[d]]_vars

\* Whether something failed in the handler run that returned last: a call that
\* raises in its try block, the analysis inside FileAnalyzer, the search inside
\* WebSearcher.
SearchFailedInside(e) ==
    /\ e.handler = "perform_web_search"
    /\ search_and_summarize(e.msg.text, e.search).summary = SearchFailed
AnalysisFailedInside(e) == e.analysis.text \in {ImageFailed, PdfFailed}
LogicFailed(e) == e.fail # "none" \/ SearchFailedInside(e) \/ AnalysisFailedInside(e)

\* C5, as stated: when a handler's internal logic fails on an event, the reply is
\* exactly that handler's fixed apology and no exception leaves the handler.
C5_ApologyOnAnyFailure ==
    (last.handler # None /\ LogicFailed(last)) =>
        /\ ~last.escaped
        /\ Len(last.replies) = 1
        /\ last.replies[1].text = Apology(last.handler)

\* C5, amended: when a call raises in a handler's try block, the handler sends its
\* fixed apology as the last reply of its run (the only one, unless the call that
\* raised is the removal of the temporary file, which follows the analysis reply),
\* and an exception leaves the handler exactly when sending that apology raises too;
\* a failure caught inside FileAnalyzer or WebSearcher is not such a case: the
\* handler sends its usual reply, carrying the component's own fixed text.  A run
\* in which no call raises sends its usual single reply, whatever failed before it.
C5_ApologyOnRaise ==
    last.handler # None =>
        IF last.fail \in RaisePoints(last.handler)
        THEN /\ last.escaped <=> last.apology_fails
             /\ \A i \in 1..Len(last.replies) :
                    (last.replies[i].text = Apology(last.handler)) <=>
                        (~last.apology_fails /\ i = Len(last.replies))
             /\ Len(last.replies) =
                    (IF last.fail = "remove" THEN 1 ELSE 0)
                        + (IF last.apology_fails THEN 0 ELSE 1)
        ELSE /\ ~last.escaped
             /\ Len(last.replies) = 1
             /\ last.replies[1].text # Apology(last.handler)
             /\ last.handler \in {"handle_photo", "handle_document"} =>
                    last.replies[1].about[1] = last.analysis
             /\ SearchFailedInside(last) => last.replies[1].about[1] = SearchFailed

C5_Witness ==
    /\ last.handler = "perform_web_search"
    /\ last.fail = "reply"
    /\ ~last.apology_fails
    /\ Len(last.replies) = 1
    /\ last.replies[1].text = ApologyPerform
    /\ ~last.escaped

\* The first links of the list, those the fetch loop covers.
FetchedPart(e) == LinkList(Min(FetchLimit, e.n))
SearchReturns == sq.phase = "out" /\ sq.env.search_ok
SomeFetched == \E i \in 1..Min(FetchLimit, sq.env.n) : i \in sq.env.ok

\* C7, as stated: every one of the first 3 links is tried whichever of them fail;
\* with no page fetched the result is the "nothing found" text with the full link
\* list and no generation call; with a page fetched there is exactly one generation
\* call and the result carries the full link list.
C7_FullLinkList ==
    SearchReturns =>
        /\ sq.res.attempted = FetchedPart(sq.env)
        /\ ~SomeFetched =>
              /\ sq.res.summary = NothingFound
              /\ sq.res.links = LinkList(sq.env.n)
              /\ sq.res.gen_calls = 0
        /\ SomeFetched =>
              /\ sq.res.gen_calls = 1
              /\ sq.res.links = LinkList(sq.env.n)

\* C7, amended: as stated, except that with a page fetched the full link list is
\* returned (with the generated text) when the one generation call returns; when it
\* raises, the result is the fixed "couldn't perform the web search" text with an
\* empty link list.
C7_FullLinkListIfGenerated ==
    SearchReturns =>
        /\ sq.res.attempted = FetchedPart(sq.env)
        /\ ~SomeFetched =>
              /\ sq.res.summary = NothingFound
              /\ sq.res.links = LinkList(sq.env.n)
              /\ sq.res.gen_calls = 0
        /\ SomeFetched =>
              /\ sq.res.gen_calls = 1
              /\ Len(sq.res.prompt) = Cardinality(sq.env.ok \cap (1..Min(FetchLimit, sq.env.n)))
              /\ IF sq.env.gen
                 THEN sq.res.summary = "summary" /\ sq.res.links = LinkList(sq.env.n)
                 ELSE sq.res.summary = SearchFailed /\ sq.res.links = <<>>

C7_Witness ==
    /\ SearchReturns
    /\ sq.env.n = NumResults
    /\ sq.env.ok = {2}
    /\ sq.env.gen
    /\ sq.res.attempted = <<1, 2, 3>>
    /\ sq.res.links = <<1, 2, 3, 4, 5>>
    /\ sq.res.gen_calls = 1

\* C8: each counter update is one step that adds 1 to total_messages and sets
\* last_active to the clock value the exchange making it read for it, neither
\* changes without the other, and in every state total_messages of a registered
\* chat_id is the number of exchanges that have made their update on its record,
\* however the exchanges of the worker threads interleave.
C8_NoLostUpdate ==
    /\ [](\A c \in Chats : HasUser(users, c) => Total(c) = obs[c].counted)
    /\ [][\A c \in Chats :
            (HasUser(users, c) /\ HasUser(users', c)) =>
                LET u == UserOf(users, c)
                    v == UserOf(users', c)
                IN \/ v.total_messages = u.total_messages /\ v.last_active = u.last_active
                   \/ /\ v.total_messages = u.total_messages + 1
                      /\ \E w \in Workers :
                            /\ Makes(w, "update_one")
                            /\ thr[w].m.chat = c
                            /\ v.last_active = thr[w].t]_vars

\* Two exchanges of one registered chat_id in flight; the one that read the clock
\* later has made its update, the other has not yet.
C8_Witness ==
    \E c \in Chats, w \in Workers :
        /\ HasUser(users, c)
        /\ Total(c) >= 1
        /\ thr[w].pc = "update_one"
        /\ thr[w].m.chat = c
        /\ thr[w].t < LastActive(c)

\* C9: the bytes analysed in a photo or document event, whose analysis is stored
\* and sent as the reply, are the bytes downloaded for that event (none for a
\* document that is no PDF).
C9_AttachmentIsolation ==
    (last.handler \in {"handle_photo", "handle_document"} /\ last.analysis # NoAnalysis) =>
        last.analysis.src = IF last.msg.ctype = "photo" \/ IsPdf(last.msg.arg)
                            THEN Download(last.id, last.msg.size)
                            ELSE <<>>

\* C10: the ChatHistoryRecords of a chat_id are at least as many as the
\* total_messages of its UserRecord (0 when it has none).
C10_HistoryCoversCounter ==
    \A c \in Chats :
        CountOf(chat_history, c) >= (IF HasUser(users, c) THEN Total(c) ELSE 0)

C10_Witness ==
    \E c \in Chats, w \in Workers :
        /\ HasUser(users, c)
        /\ Total(c) >= 1
        /\ CountOf(chat_history, c) > Total(c)
        /\ thr[w].pc \in {"update_utcnow", "update_one"}
        /\ thr[w].m.chat = c

=============================================================================
